---- MODULE Spec2Model ----
(***************************************************************************)
(* A model of tsdkv/pathmatch: the path utilities (Split, Join), the      *)
(* matcher (match.Match, match.StrictMatch) and the Walker that applies   *)
(* templates step by step to one concrete path.                            *)
(*                                                                         *)
(* Strings are sequences of one-character strings, so that Split, Join    *)
(* and Trim work on characters as the Go code does.  A Go                  *)
(* map[string]string is a record [isNil, kv]: kv is a function from keys  *)
(* to values, isNil tells a nil map from an empty one.                     *)
(***************************************************************************)
EXTENDS Integers, Sequences, FiniteSets, TLC

\* ------------------------------------------------------------------------
\* Bounds of the model.
\* ------------------------------------------------------------------------

\* Longest concrete path string, in characters.
MaxPathLen == 4

\* Most top-level segments of a template handed to Match or Step.
MaxTemplateLen == 2

\* Deepest walker explored (Step is not taken beyond it).
MaxDepth == 2

\* The longest template string handed to ParseTemplate, in pieces.
MaxPieces == 5

\* ------------------------------------------------------------------------
\* Strings.
\* ------------------------------------------------------------------------

Slash == "/"

\* The characters concrete paths are made of: the separator and a letter
\* (segments differ by their length; template literals add the upper case).
PathAlphabet == {"/", "a"}

RECURSIVE StringsOver(_, _)
StringsOver(alphabet, n) ==
    IF n = 0 THEN {<<>>}
    ELSE LET shorter == StringsOver(alphabet, n - 1)
         IN  shorter \cup {Append(s, c) : s \in {t \in shorter : Len(t) = n - 1}, c \in alphabet}

PathStrings == StringsOver(PathAlphabet, MaxPathLen)

\* strings.Trim(s, "/")
RECURSIVE TrimLeft(_)
TrimLeft(s) ==
    IF s # <<>> /\ Head(s) = Slash THEN TrimLeft(Tail(s)) ELSE s

RECURSIVE TrimRight(_)
TrimRight(s) ==
    IF s # <<>> /\ s[Len(s)] = Slash THEN TrimRight(SubSeq(s, 1, Len(s) - 1)) ELSE s

Trim(s) == TrimRight(TrimLeft(s))

\* strings.Index(s, "/") + 1, 0 when there is none.
IndexOfSlash(s) ==
    IF \E i \in 1..Len(s) : s[i] = Slash
    THEN CHOOSE i \in 1..Len(s) : s[i] = Slash /\ \A j \in 1..(i - 1) : s[j] # Slash
    ELSE 0

\* strings.Split(s, "/"): the pieces between slashes, empty ones included.
RECURSIVE StringsSplit(_)
StringsSplit(s) ==
    LET i == IndexOfSlash(s)
    IN  IF i = 0 THEN <<s>>
        ELSE <<SubSeq(s, 1, i - 1)>> \o StringsSplit(SubSeq(s, i + 1, Len(s)))

\* strings.Join(list, "/")
RECURSIVE StringsJoin(_)
StringsJoin(list) ==
    IF list = <<>> THEN <<>>
    ELSE IF Len(list) = 1 THEN list[1]
    ELSE list[1] \o <<Slash>> \o StringsJoin(Tail(list))

NonEmpty(s) == s # <<>>

\* strings.ToLower on one character of the alphabet.
ToLower(c) == IF c = "A" THEN "a" ELSE c

\* strings.EqualFold
EqualFold(a, b) ==
    /\ Len(a) = Len(b)
    /\ \A i \in 1..Len(a) : ToLower(a[i]) = ToLower(b[i])

compareStrings(a, b, caseInsensitive) ==
    IF caseInsensitive THEN EqualFold(a, b) ELSE a = b

\* ------------------------------------------------------------------------
\* internal/utils: Split and Join.
\* ------------------------------------------------------------------------

Split(path) ==
    LET trimmedPath == Trim(path)
    IN  IF trimmedPath = <<>> THEN <<>>
        ELSE SelectSeq(StringsSplit(trimmedPath), NonEmpty)

RECURSIVE TrimEach(_)
TrimEach(segments) ==
    IF segments = <<>> THEN <<>>
    ELSE <<Trim(Head(segments))>> \o TrimEach(Tail(segments))

Join(segments) ==
    IF Len(segments) = 0 THEN <<Slash>>
    ELSE LET validSegments == SelectSeq(TrimEach(segments), NonEmpty)
         IN  IF Len(validSegments) = 0 THEN <<Slash>>
             ELSE <<Slash>> \o StringsJoin(validSegments)

Clean(path) ==
    IF path = <<>> THEN <<>>
    ELSE IF path = <<Slash>> THEN <<Slash>>
    ELSE LET segments == Split(path)
         IN  IF Len(segments) = 0 THEN <<Slash>> ELSE Join(segments)

\* ------------------------------------------------------------------------
\* Go maps.
\* ------------------------------------------------------------------------

NilMap == [isNil |-> TRUE, kv |-> <<>>]

EmptyMap == [isNil |-> FALSE, kv |-> <<>>]

MapHas(m, k) == k \in DOMAIN m.kv

\* m[k] = v
MapSet(m, k, v) ==
    [isNil |-> FALSE,
     kv |-> [x \in (DOMAIN m.kv) \cup {k} |-> IF x = k THEN v ELSE m.kv[x]]]

\* make(map) followed by maps.Copy(dst, src): never nil.
MapCopy(m) == [isNil |-> FALSE, kv |-> m.kv]

\* ------------------------------------------------------------------------
\* The compiled tree (pathmatchpb): a template is a sequence of segments.
\* A top-level segment is a record [kind, value, name, nilSegments,
\* segments]; an element of a variable's sub-pattern is a record
\* [kind, value].
\* ------------------------------------------------------------------------

SubLiteral(v) == [kind |-> "Literal", value |-> v]

SubStar == [kind |-> "Star", value |-> <<>>]

SubDoubleStar == [kind |-> "DoubleStar", value |-> <<>>]

Literal(v) ==
    [kind |-> "Literal", value |-> v, name |-> <<>>, nilSegments |-> TRUE, segments |-> <<>>]

Star ==
    [kind |-> "Star", value |-> <<>>, name |-> <<>>, nilSegments |-> TRUE, segments |-> <<>>]

DoubleStar ==
    [kind |-> "DoubleStar", value |-> <<>>, name |-> <<>>, nilSegments |-> TRUE, segments |-> <<>>]

\* {name}
Variable(n) ==
    [kind |-> "Variable", value |-> <<>>, name |-> n, nilSegments |-> TRUE, segments |-> <<>>]

\* {name=pattern}
VariablePattern(n, pattern) ==
    [kind |-> "Variable", value |-> <<>>, name |-> n, nilSegments |-> FALSE, segments |-> pattern]

PathTemplate(segs) == [isNil |-> FALSE, segments |-> segs]

NilTemplate == [isNil |-> TRUE, segments |-> <<>>]

MatchOptions(ci, kf) == [CaseInsensitive |-> ci, KeepFirstVariable |-> kf]

\* ------------------------------------------------------------------------
\* internal/match: Match and StrictMatch.
\* ------------------------------------------------------------------------

\* What Match returns: (matched, pathIdx, vars, err); err = "" is a nil error.
MatchReturn(matched, pathIdx, vars, err) ==
    [matched |-> matched, pathIdx |-> pathIdx, vars |-> vars, err |-> err]

NoMatch == MatchReturn(FALSE, 0, NilMap, "")

MatchError(msg) == MatchReturn(FALSE, 0, NilMap, msg)

\* pathSegments[pathIdx:], pathIdx counted from 0 as in the code.
SliceFrom(pathSegments, pathIdx) == SubSeq(pathSegments, pathIdx + 1, Len(pathSegments))

\* The inner loop of Match over a variable's sub-pattern, from its element i
\* (counted from 1).  Its outcome is "fail" (return no match), "error",
\* "return" (a double star ended the whole match) or "continue" (the
\* sub-pattern is exhausted and the outer loop goes on).
RECURSIVE MatchPattern(_, _, _, _, _, _, _)
MatchPattern(pattern, i, lastTemplateSegment, pathSegments, opts, pathIdx, varValue) ==
    IF i > Len(pattern)
    THEN [outcome |-> "continue", pathIdx |-> pathIdx, varValue |-> varValue, err |-> ""]
    ELSE LET seg == pattern[i]
         IN  CASE seg.kind = "Literal" ->
                    IF \/ pathIdx >= Len(pathSegments)
                       \/ ~compareStrings(seg.value, pathSegments[pathIdx + 1], opts.CaseInsensitive)
                    THEN [outcome |-> "fail", pathIdx |-> pathIdx, varValue |-> varValue, err |-> ""]
                    ELSE MatchPattern(pattern, i + 1, lastTemplateSegment, pathSegments, opts,
                                      pathIdx + 1, Append(varValue, seg.value))
               [] seg.kind = "DoubleStar" ->
                    IF i # Len(pattern) /\ ~lastTemplateSegment
                    THEN [outcome |-> "error", pathIdx |-> pathIdx, varValue |-> varValue,
                          err |-> "double star must be the last segment in variable pattern"]
                    ELSE [outcome |-> "return", pathIdx |-> Len(pathSegments),
                          varValue |-> varValue \o SliceFrom(pathSegments, pathIdx), err |-> ""]
               [] seg.kind = "Star" ->
                    IF pathIdx < Len(pathSegments)
                    THEN MatchPattern(pattern, i + 1, lastTemplateSegment, pathSegments, opts,
                                      pathIdx + 1, Append(varValue, pathSegments[pathIdx + 1]))
                    ELSE [outcome |-> "fail", pathIdx |-> pathIdx, varValue |-> varValue, err |-> ""]
               [] seg.kind = "Variable" ->
                    [outcome |-> "error", pathIdx |-> pathIdx, varValue |-> varValue,
                     err |-> "nested variables in patterns are not allowed"]
               [] OTHER ->
                    [outcome |-> "error", pathIdx |-> pathIdx, varValue |-> varValue,
                     err |-> "unexpected segment type in variable pattern"]

\* The main loop of Match and the check after it; templateIdx and pathIdx
\* count from 0 as in the code.
RECURSIVE MatchLoop(_, _, _, _, _, _)
MatchLoop(segments, pathSegments, opts, templateIdx, pathIdx, vars) ==
    IF ~(templateIdx < Len(segments) /\ pathIdx < Len(pathSegments))
    THEN IF templateIdx # Len(segments) THEN NoMatch
         ELSE MatchReturn(TRUE, pathIdx, vars, "")
    ELSE LET segment == segments[templateIdx + 1]
             pathSegment == pathSegments[pathIdx + 1]
         IN  CASE segment.kind = "Literal" ->
                    IF ~compareStrings(segment.value, pathSegment, opts.CaseInsensitive)
                    THEN NoMatch
                    ELSE MatchLoop(segments, pathSegments, opts, templateIdx + 1, pathIdx + 1, vars)
               [] segment.kind = "Star" ->
                    MatchLoop(segments, pathSegments, opts, templateIdx + 1, pathIdx + 1, vars)
               [] segment.kind = "DoubleStar" ->
                    IF templateIdx # Len(segments) - 1
                    THEN MatchError("double star must be the last segment")
                    ELSE MatchReturn(TRUE, Len(pathSegments), vars, "")
               [] segment.kind = "Variable" /\ segment.nilSegments ->
                    MatchLoop(segments, pathSegments, opts, templateIdx + 1, pathIdx + 1,
                              MapSet(vars, segment.name, pathSegment))
               [] segment.kind = "Variable" /\ ~segment.nilSegments ->
                    LET p == MatchPattern(segment.segments, 1, templateIdx = Len(segments) - 1,
                                          pathSegments, opts, pathIdx, <<>>)
                    IN  CASE p.outcome = "fail" -> NoMatch
                          [] p.outcome = "error" -> MatchError(p.err)
                          [] p.outcome = "return" ->
                               MatchReturn(TRUE, p.pathIdx,
                                           MapSet(vars, segment.name, Join(p.varValue)), "")
                          [] OTHER ->
                               MatchLoop(segments, pathSegments, opts, templateIdx + 1, p.pathIdx,
                                         IF ~MapHas(vars, segment.name)
                                         THEN MapSet(vars, segment.name, Join(p.varValue))
                                         ELSE IF ~opts.KeepFirstVariable
                                              THEN MapSet(vars, segment.name, Join(p.varValue))
                                              ELSE vars)

\* A variant of Match that takes a nil template for the empty one.
Match_NilAsEmpty(template, pathSegments, opts) ==
    IF Len(pathSegments) = 0
    THEN MatchReturn(Len(template.segments) = 0, 0, NilMap, "")
    ELSE MatchLoop(template.segments, pathSegments, opts, 0, 0, EmptyMap)

\* A variant of Match that reports the whole path as consumed on a match.
Match_ReportsWholePath(template, pathSegments, opts) ==
    IF template.isNil THEN MatchError("template cannot be nil")
    ELSE IF Len(pathSegments) = 0
         THEN MatchReturn(Len(template.segments) = 0, 0, NilMap, "")
         ELSE [MatchLoop(template.segments, pathSegments, opts, 0, 0, EmptyMap)
                  EXCEPT !.pathIdx = IF @ = 0 THEN 0 ELSE Len(pathSegments)]

Match(template, pathSegments, opts) ==
    IF template.isNil THEN MatchError("template cannot be nil")
    ELSE IF Len(pathSegments) = 0
         THEN MatchReturn(Len(template.segments) = 0, 0, NilMap, "")
         ELSE MatchLoop(template.segments, pathSegments, opts, 0, 0, EmptyMap)

\* A variant of StrictMatch that does not compare the consumed count with the
\* number of path segments.
StrictMatch_AnyPrefix(template, path, opts) ==
    LET m == Match(template, Split(path), opts)
    IN  [matched |-> m.matched,
         vars |-> IF ~m.matched THEN NilMap ELSE m.vars,
         err |-> m.err]

\* A variant of StrictMatch that returns the captures of a match that did
\* not reach the end of the path.
StrictMatch_KeepsCaptures(template, path, opts) ==
    LET pathSegments == Split(path)
        m == Match(template, pathSegments, opts)
    IN  [matched |-> m.matched /\ m.pathIdx = Len(pathSegments),
         vars |-> m.vars,
         err |-> m.err]

\* What StrictMatch returns: (matched, vars, err).
StrictMatch(template, path, opts) ==
    LET pathSegments == Split(path)
        m == Match(template, pathSegments, opts)
        matched == m.matched /\ m.pathIdx = Len(pathSegments)
    IN  [matched |-> matched,
         vars |-> IF ~matched THEN NilMap ELSE m.vars,
         err |-> m.err]

\* pathmatch.Match(template, path, opts...): the options are applied to a
\* fresh MatchOptions, then the same steps as StrictMatch.
PathmatchMatch(template, path, withCaseInsensitive, withKeepFirstVariable) ==
    LET mopts == MatchOptions(withCaseInsensitive, withKeepFirstVariable)
        pathSegments == Split(path)
        m == Match(template, pathSegments, mopts)
        matched == m.matched /\ m.pathIdx = Len(pathSegments)
    IN  [matched |-> matched,
         vars |-> IF ~matched THEN NilMap ELSE m.vars,
         err |-> m.err]

\* ------------------------------------------------------------------------
\* The inputs the model draws.
\* ------------------------------------------------------------------------

SeqsUpTo(S, n) == UNION {[1..k -> S] : k \in 0..n}

NameX == <<"x">>

NameY == <<"y">>

LitA == <<"a">>

LitUpperA == <<"A">>

\* Top-level segments of the templates handed to Walker.Step.
StepSegments ==
    {Literal(LitA), DoubleStar, Variable(NameX), Variable(NameY),
     VariablePattern(NameX, <<SubLiteral(LitUpperA), SubDoubleStar>>)}

\* The templates handed to Walker.Step: a nil template, well-formed trees
\* and hand-built trees with a double star that is not last.
StepTemplates ==
    {NilTemplate} \cup {PathTemplate(segs) : segs \in SeqsUpTo(StepSegments, MaxTemplateLen)}

\* ------------------------------------------------------------------------
\* State.
\* ------------------------------------------------------------------------

VARIABLES
    pathSegments,       \* Walker.pathSegments
    currDepth,          \* Walker.currDepth
    pathSegIdx,         \* Walker.pathSegIdx
    segIdsCheckpoints,  \* Walker.segIdsCheckpoints
    vars,               \* Walker.vars, a nil slice being the empty sequence
    matchOptions,       \* Walker.matchOptions
    ret,                \* what the last Walker call returned
    hist,               \* history: what Remaining(), Variables() and Depth()
                        \* were before each step that is still applied
    mIn,                \* the arguments of a one-shot Match or StrictMatch
    mOut,               \* what that call returned
    frame               \* the locals of a call of Match that is under way

walkerVars == <<pathSegments, currDepth, pathSegIdx, segIdsCheckpoints, vars, matchOptions>>

allVars == <<pathSegments, currDepth, pathSegIdx, segIdsCheckpoints, vars, matchOptions,
             ret, hist, mIn, mOut, frame>>

\* ------------------------------------------------------------------------
\* Walker: the read-only methods.
\* ------------------------------------------------------------------------

IsComplete == pathSegIdx = Len(pathSegments)

Depth == currDepth

\* A variant of Remaining that tests > where the code tests >=.
Remaining_OffByOne ==
    IF pathSegIdx > Len(pathSegments) THEN <<>>
    ELSE Join(SliceFrom(pathSegments, pathSegIdx))

Remaining ==
    IF pathSegIdx >= Len(pathSegments) THEN <<>>
    ELSE Join(SliceFrom(pathSegments, pathSegIdx))

\* A variant of MergeLayer that ignores KeepFirstVariable.
MergeLayer_AlwaysOverwrite(acc, layer, keepFirst) ==
    [isNil |-> FALSE,
     kv |-> [k \in (DOMAIN acc.kv) \cup (DOMAIN layer.kv) |->
                IF k \in DOMAIN layer.kv THEN layer.kv[k] ELSE acc.kv[k]]]

\* One layer merged into the accumulated map, as the inner loop of Variables.
MergeLayer(acc, layer, keepFirst) ==
    [isNil |-> FALSE,
     kv |-> [k \in (DOMAIN acc.kv) \cup (DOMAIN layer.kv) |->
                IF k \in DOMAIN layer.kv /\ ~(keepFirst /\ k \in DOMAIN acc.kv)
                THEN layer.kv[k]
                ELSE acc.kv[k]]]

RECURSIVE MergeLayers(_, _, _)
MergeLayers(acc, layers, keepFirst) ==
    IF layers = <<>> THEN acc
    ELSE MergeLayers(MergeLayer(acc, Head(layers), keepFirst), Tail(layers), keepFirst)

Variables == MergeLayers(EmptyMap, vars, matchOptions.KeepFirstVariable)

\* ------------------------------------------------------------------------
\* Walker: construction, Step, StepBack, Reset.
\* ------------------------------------------------------------------------

\* What a Walker call returned.  op names the call; matched, stepVars and
\* err are Step's results (pathIdx is the count Match reported to it), ok is
\* StepBack's result.
Return(op, matched, ok, stepVars, err, pathIdx) ==
    [op |-> op, matched |-> matched, ok |-> ok, stepVars |-> stepVars,
     err |-> err, pathIdx |-> pathIdx]

NoReturn == Return("New", FALSE, FALSE, NilMap, "", 0)

\* A history entry: Remaining(), Variables() and Depth() as they were before
\* a successful step, and the captures that step returned.
Snapshot(stepVars) ==
    [remaining |-> Remaining, variables |-> Variables, depth |-> Depth,
     stepVars |-> stepVars]

\* WalkerBuilder.Build (NewWalker is Build with the default options).
Build(concretePath, options) ==
    /\ pathSegments = Split(concretePath)
    /\ currDepth = 0
    /\ pathSegIdx = 0
    /\ segIdsCheckpoints = <<0>>
    /\ vars = <<>>
    /\ matchOptions = options

\* A variant of Unconsumed that hands Match the whole path.
Unconsumed_WholePath == pathSegments

\* w.pathSegments[w.pathSegIdx:], what Step hands to Match.
Unconsumed == SliceFrom(pathSegments, pathSegIdx)

\* A variant of StepRejected that counts the attempt as a step.
StepRejected_CountsDepth(m) ==
    /\ ret' = Return("Step", FALSE, FALSE, NilMap, m.err, m.pathIdx)
    /\ currDepth' = currDepth + 1
    /\ UNCHANGED <<pathSegments, pathSegIdx, segIdsCheckpoints, vars, matchOptions, hist>>

\* Step when Match returned an error or no match: nothing is written.
StepRejected(m) ==
    /\ ret' = Return("Step", FALSE, FALSE, NilMap, m.err, m.pathIdx)
    /\ UNCHANGED <<walkerVars, hist>>

\* A variant of PushCheckpoint that always appends, stale entries or not.
PushCheckpoint_AlwaysAppend(checkpoints, depth, idx) == Append(checkpoints, idx)

\* The checkpoint of the new depth: appended, or written over a stale entry
\* left by an earlier StepBack.
PushCheckpoint(checkpoints, depth, idx) ==
    IF Len(checkpoints) <= depth
    THEN Append(checkpoints, idx)
    ELSE [checkpoints EXCEPT ![depth + 1] = idx]

\* Step when Match succeeded.
StepAccepted(m) ==
    /\ pathSegIdx' = pathSegIdx + m.pathIdx
    /\ currDepth' = currDepth + 1
    /\ vars' = Append(vars, m.vars)
    /\ segIdsCheckpoints' = PushCheckpoint(segIdsCheckpoints, currDepth', pathSegIdx')
    /\ ret' = Return("Step", TRUE, FALSE, MapCopy(m.vars), "", m.pathIdx)
    /\ hist' = Append(hist, Snapshot(MapCopy(m.vars)))
    /\ UNCHANGED <<pathSegments, matchOptions>>

Step(template) ==
    /\ currDepth < MaxDepth
    /\ LET m == Match(template, Unconsumed, matchOptions)
       IN  IF m.err # "" THEN StepRejected(m)
           ELSE IF ~m.matched THEN StepRejected(m)
           ELSE StepAccepted(m)
    /\ UNCHANGED <<mIn, mOut, frame>>

\* A variant of StepBackAtRoot that reports success.
StepBackAtRoot_ReturnsTrue ==
    /\ ret' = Return("StepBack", FALSE, TRUE, NilMap, "", 0)
    /\ UNCHANGED <<walkerVars, hist>>

\* StepBack at depth 0.
StepBackAtRoot ==
    /\ ret' = Return("StepBack", FALSE, FALSE, NilMap, "", 0)
    /\ UNCHANGED <<walkerVars, hist>>

\* A variant of StepBackRestore that leaves the capture layers as they are.
StepBackRestore_KeepsLayers ==
    /\ currDepth' = currDepth - 1
    /\ pathSegIdx' = segIdsCheckpoints[currDepth' + 1]
    /\ ret' = Return("StepBack", FALSE, TRUE, NilMap, "", 0)
    /\ hist' = SubSeq(hist, 1, Len(hist) - 1)
    /\ UNCHANGED <<pathSegments, segIdsCheckpoints, vars, matchOptions>>

\* A variant of StepBackRestore that does not restore the consumed index.
StepBackRestore_KeepsIndex ==
    /\ currDepth' = currDepth - 1
    /\ vars' = IF currDepth' < Len(vars) THEN SubSeq(vars, 1, currDepth') ELSE <<>>
    /\ ret' = Return("StepBack", FALSE, TRUE, NilMap, "", 0)
    /\ hist' = SubSeq(hist, 1, Len(hist) - 1)
    /\ UNCHANGED <<pathSegments, pathSegIdx, segIdsCheckpoints, matchOptions>>

\* StepBack at a depth above 0: the last checkpoint is restored.
StepBackRestore ==
    /\ currDepth' = currDepth - 1
    /\ pathSegIdx' = segIdsCheckpoints[currDepth' + 1]
    /\ vars' = IF currDepth' < Len(vars) THEN SubSeq(vars, 1, currDepth') ELSE <<>>
    /\ ret' = Return("StepBack", FALSE, TRUE, NilMap, "", 0)
    /\ hist' = SubSeq(hist, 1, Len(hist) - 1)
    /\ UNCHANGED <<pathSegments, segIdsCheckpoints, matchOptions>>

StepBack ==
    /\ IF currDepth = 0 THEN StepBackAtRoot ELSE StepBackRestore
    /\ UNCHANGED <<mIn, mOut, frame>>

\* A variant of Reset that keeps the checkpoint stack.
Reset_KeepsCheckpoints ==
    /\ pathSegIdx' = 0
    /\ currDepth' = 0
    /\ vars' = <<>>
    /\ ret' = Return("Reset", FALSE, FALSE, NilMap, "", 0)
    /\ hist' = <<>>
    /\ UNCHANGED <<pathSegments, segIdsCheckpoints, matchOptions, mIn, mOut, frame>>

Reset ==
    /\ pathSegIdx' = 0
    /\ currDepth' = 0
    /\ segIdsCheckpoints' = <<0>>
    /\ vars' = <<>>
    /\ ret' = Return("Reset", FALSE, FALSE, NilMap, "", 0)
    /\ hist' = <<>>
    /\ UNCHANGED <<pathSegments, matchOptions, mIn, mOut, frame>>

\* ------------------------------------------------------------------------
\* The walker's specification: a walker built over any path string with any
\* options, then driven by any calls.
\* ------------------------------------------------------------------------

NoCall == [template |-> NilTemplate, path |-> <<>>, opts |-> MatchOptions(FALSE, FALSE)]

NoResult == [fn |-> "none", matched |-> FALSE, pathIdx |-> 0, vars |-> NilMap, err |-> ""]

\* No call of Match is under way.
NoFrame == [pc |-> "idle", templateIdx |-> 0, pathIdx |-> 0, vars |-> NilMap]

Init ==
    /\ \E p \in PathStrings, ci \in BOOLEAN, kf \in BOOLEAN : Build(p, MatchOptions(ci, kf))
    /\ ret = NoReturn
    /\ hist = <<>>
    /\ mIn = NoCall
    /\ mOut = NoResult
    /\ frame = NoFrame

Next ==
    \/ \E template \in StepTemplates : Step(template)
    \/ StepBack
    \/ Reset

Spec == Init /\ [][Next]_allVars

\* ------------------------------------------------------------------------
\* The walker together with its builder.  Build hands the walker the
\* builder's own *MatchOptions, so matchOptions is the one object both point
\* to, and the builder's With... methods write to it after Build as before.
\* ------------------------------------------------------------------------

WithCaseIncensitive ==
    /\ matchOptions' = [matchOptions EXCEPT !.CaseInsensitive = TRUE]
    /\ ret' = Return("WithCaseIncensitive", FALSE, FALSE, NilMap, "", 0)
    /\ UNCHANGED <<pathSegments, currDepth, pathSegIdx, segIdsCheckpoints, vars, hist, mIn, mOut, frame>>

WithKeepFirstVariable ==
    /\ matchOptions' = [matchOptions EXCEPT !.KeepFirstVariable = TRUE]
    /\ ret' = Return("WithKeepFirstVariable", FALSE, FALSE, NilMap, "", 0)
    /\ UNCHANGED <<pathSegments, currDepth, pathSegIdx, segIdsCheckpoints, vars, hist, mIn, mOut, frame>>

NextBuilder ==
    \/ \E template \in StepTemplates : Step(template)
    \/ StepBack
    \/ Reset
    \/ WithCaseIncensitive
    \/ WithKeepFirstVariable

SpecBuilder == Init /\ [][NextBuilder]_allVars

\* ------------------------------------------------------------------------
\* The matcher's specification: one template, one path string and one
\* option setting are drawn, and the matching functions are called on them.
\* ------------------------------------------------------------------------

\* Top-level segments of the templates handed to the one-shot functions.
MatchSegments ==
    {Literal(LitA), Literal(LitUpperA), Star, DoubleStar, Variable(NameX), Variable(NameY),
     VariablePattern(NameY, <<SubDoubleStar>>),
     VariablePattern(NameX, <<SubLiteral(LitA), SubStar>>),
     VariablePattern(NameX, <<SubLiteral(LitUpperA), SubDoubleStar>>)}

MatchTemplates ==
    {NilTemplate} \cup {PathTemplate(segs) : segs \in SeqsUpTo(MatchSegments, MaxTemplateLen)}

CallMatch ==
    /\ LET m == Match(mIn.template, Split(mIn.path), mIn.opts)
       IN  mOut' = [fn |-> "Match", matched |-> m.matched, pathIdx |-> m.pathIdx,
                    vars |-> m.vars, err |-> m.err]
    /\ UNCHANGED <<walkerVars, ret, hist, mIn, frame>>

CallStrictMatch ==
    /\ LET m == StrictMatch(mIn.template, mIn.path, mIn.opts)
       IN  mOut' = [fn |-> "StrictMatch", matched |-> m.matched, pathIdx |-> 0,
                    vars |-> m.vars, err |-> m.err]
    /\ UNCHANGED <<walkerVars, ret, hist, mIn, frame>>

CallPathmatchMatch ==
    /\ LET m == PathmatchMatch(mIn.template, mIn.path, mIn.opts.CaseInsensitive,
                               mIn.opts.KeepFirstVariable)
       IN  mOut' = [fn |-> "pathmatch.Match", matched |-> m.matched, pathIdx |-> 0,
                    vars |-> m.vars, err |-> m.err]
    /\ UNCHANGED <<walkerVars, ret, hist, mIn, frame>>

InitMatch ==
    /\ Build(<<>>, MatchOptions(FALSE, FALSE))
    /\ ret = NoReturn
    /\ hist = <<>>
    /\ \E t \in MatchTemplates, p \in PathStrings, ci \in BOOLEAN, kf \in BOOLEAN :
           mIn = [template |-> t, path |-> p, opts |-> MatchOptions(ci, kf)]
    /\ mOut = NoResult
    /\ frame = NoFrame

NextMatch ==
    \/ CallMatch
    \/ CallStrictMatch
    \/ CallPathmatchMatch

SpecMatch == InitMatch /\ [][NextMatch]_allVars

\* ------------------------------------------------------------------------
\* Match, one iteration of its main loop at a time: the call is entered, the
\* loop is iterated, and the call returns.  The trees are hand-built and
\* include a Segment whose oneof field is not set.
\* ------------------------------------------------------------------------

\* &pathmatchpb.Segment{}: no variant set.
Unset ==
    [kind |-> "Unset", value |-> <<>>, name |-> <<>>, nilSegments |-> TRUE, segments |-> <<>>]

LoopSegments ==
    {Literal(LitA), Star, DoubleStar, Variable(NameX),
     VariablePattern(NameX, <<SubLiteral(LitA), SubStar>>), Unset}

LoopTemplates ==
    {NilTemplate} \cup {PathTemplate(segs) : segs \in SeqsUpTo(LoopSegments, MaxTemplateLen)}

\* A return statement of Match.
LoopReturn(m) ==
    /\ mOut' = [fn |-> "Match", matched |-> m.matched, pathIdx |-> m.pathIdx,
                vars |-> m.vars, err |-> m.err]
    /\ frame' = [frame EXCEPT !.pc = "done"]

\* The end of an iteration that did not return.
LoopContinue(templateIdx, pathIdx, matchVars) ==
    /\ frame' = [pc |-> "loop", templateIdx |-> templateIdx, pathIdx |-> pathIdx,
                 vars |-> matchVars]
    /\ UNCHANGED mOut

\* The iteration on a variable with a sub-pattern, given the outcome p of
\* the inner loop.
LoopVariablePattern(segment, p) ==
    CASE p.outcome = "fail" -> LoopReturn(NoMatch)
      [] p.outcome = "error" -> LoopReturn(MatchError(p.err))
      [] p.outcome = "return" ->
           LoopReturn(MatchReturn(TRUE, p.pathIdx,
                                  MapSet(frame.vars, segment.name, Join(p.varValue)), ""))
      [] OTHER ->
           LoopContinue(frame.templateIdx + 1, p.pathIdx,
                        IF ~MapHas(frame.vars, segment.name)
                        THEN MapSet(frame.vars, segment.name, Join(p.varValue))
                        ELSE IF ~mIn.opts.KeepFirstVariable
                             THEN MapSet(frame.vars, segment.name, Join(p.varValue))
                             ELSE frame.vars)

\* The body of the main loop on one segment; a segment of no variant falls
\* through the type switch, which has no default case, and nothing is
\* written.
LoopBody(segments, path, segment, pathSegment) ==
    CASE segment.kind = "Literal" ->
           IF ~compareStrings(segment.value, pathSegment, mIn.opts.CaseInsensitive)
           THEN LoopReturn(NoMatch)
           ELSE LoopContinue(frame.templateIdx + 1, frame.pathIdx + 1, frame.vars)
      [] segment.kind = "Star" ->
           LoopContinue(frame.templateIdx + 1, frame.pathIdx + 1, frame.vars)
      [] segment.kind = "DoubleStar" ->
           IF frame.templateIdx # Len(segments) - 1
           THEN LoopReturn(MatchError("double star must be the last segment"))
           ELSE LoopReturn(MatchReturn(TRUE, Len(path), frame.vars, ""))
      [] segment.kind = "Variable" /\ segment.nilSegments ->
           LoopContinue(frame.templateIdx + 1, frame.pathIdx + 1,
                        MapSet(frame.vars, segment.name, pathSegment))
      [] segment.kind = "Variable" /\ ~segment.nilSegments ->
           LoopVariablePattern(segment,
                               MatchPattern(segment.segments, 1,
                                            frame.templateIdx = Len(segments) - 1,
                                            path, mIn.opts, frame.pathIdx, <<>>))
      [] OTHER ->
           UNCHANGED <<mOut, frame>>

\* The statements of Match before its main loop.
MatchEnter ==
    /\ frame.pc = "idle"
    /\ IF mIn.template.isNil
       THEN LoopReturn(MatchError("template cannot be nil"))
       ELSE IF Len(Split(mIn.path)) = 0
            THEN LoopReturn(MatchReturn(Len(mIn.template.segments) = 0, 0, NilMap, ""))
            ELSE LoopContinue(0, 0, EmptyMap)
    /\ UNCHANGED <<walkerVars, ret, hist, mIn>>

\* The test of the main loop, then one iteration of it or the statements
\* after it.
MatchIterate ==
    /\ frame.pc = "loop"
    /\ IF frame.templateIdx < Len(mIn.template.segments) /\ frame.pathIdx < Len(Split(mIn.path))
       THEN LoopBody(mIn.template.segments, Split(mIn.path),
                     mIn.template.segments[frame.templateIdx + 1],
                     Split(mIn.path)[frame.pathIdx + 1])
       ELSE IF frame.templateIdx # Len(mIn.template.segments)
            THEN LoopReturn(NoMatch)
            ELSE LoopReturn(MatchReturn(TRUE, frame.pathIdx, frame.vars, ""))
    /\ UNCHANGED <<walkerVars, ret, hist, mIn>>

InitLoop ==
    /\ Build(<<>>, MatchOptions(FALSE, FALSE))
    /\ ret = NoReturn
    /\ hist = <<>>
    /\ \E t \in LoopTemplates, p \in PathStrings, ci \in BOOLEAN, kf \in BOOLEAN :
           mIn = [template |-> t, path |-> p, opts |-> MatchOptions(ci, kf)]
    /\ mOut = NoResult
    /\ frame = NoFrame

NextLoop == MatchEnter \/ MatchIterate

SpecLoop == InitLoop /\ [][NextLoop]_allVars

\* Match is sequential code: a call that can take a step takes it.
SpecLoopFair == SpecLoop /\ WF_allVars(NextLoop)

\* ------------------------------------------------------------------------
\* Template strings, lexer and parser (internal/parse).
\* ------------------------------------------------------------------------

\* The pieces template strings are put together from: the single characters
\* of the template language, and two longer pieces that let short sequences
\* reach `**` and sub-patterns.
TemplatePieces ==
    {<<"/">>, <<"*">>, <<"{">>, <<"}">>, <<"=">>, <<"a">>,
     <<"*", "*">>, <<"/", "{", "a", "=">>}

\* The strings made of at most n pieces.
RECURSIVE StringsOfPieces(_)
StringsOfPieces(n) ==
    IF n = 0 THEN {<<>>}
    ELSE LET shorter == StringsOfPieces(n - 1)
         IN  shorter \cup {s \o piece : s \in shorter, piece \in TemplatePieces}

TemplateStrings == StringsOfPieces(MaxPieces)

Token(type, value) == [type |-> type, value |-> value]

\* The zero Token, lexer.prev before the first Match.
TokenZero == Token("TokenUnknown", <<>>)

\* The characters that end a literal: strings.IndexAny(..., "/*{}=").
LiteralStop == {"/", "*", "{", "}", "="}

\* The first position >= pos (0-based) of input holding a character of
\* LiteralStop, or len(input).
RECURSIVE LiteralEnd(_, _)
LiteralEnd(input, pos) ==
    IF pos >= Len(input) THEN Len(input)
    ELSE IF input[pos + 1] \in LiteralStop THEN pos
    ELSE LiteralEnd(input, pos + 1)

\* lexer.nextToken: the token at pos and the position after it.
nextToken(input, pos) ==
    IF pos >= Len(input) THEN [tok |-> Token("TokenEOF", <<>>), pos |-> pos]
    ELSE LET ch == input[pos + 1]
         IN  CASE ch = "/" -> [tok |-> Token("TokenSlash", <<>>), pos |-> pos + 1]
               [] ch = "*" ->
                    IF pos + 1 < Len(input) /\ input[pos + 2] = "*"
                    THEN [tok |-> Token("TokenDoubleStar", <<>>), pos |-> pos + 2]
                    ELSE [tok |-> Token("TokenStar", <<>>), pos |-> pos + 1]
               [] ch = "{" -> [tok |-> Token("TokenLeftBrace", <<>>), pos |-> pos + 1]
               [] ch = "}" -> [tok |-> Token("TokenRightBrace", <<>>), pos |-> pos + 1]
               [] ch = "=" -> [tok |-> Token("TokenEq", <<>>), pos |-> pos + 1]
               [] OTHER ->
                    LET end == LiteralEnd(input, pos)
                    IN  [tok |-> Token("TokenLiteral", SubSeq(input, pos + 1, end)),
                         pos |-> end]

NewLexer(s) ==
    LET first == nextToken(s, 0)
    IN  IF Len(s) = 0
        THEN [input |-> s, pos |-> 0, curr |-> Token("TokenEOF", <<>>),
              prev |-> TokenZero, meetDoubleStar |-> FALSE]
        ELSE [input |-> s, pos |-> first.pos, curr |-> first.tok,
              prev |-> TokenZero, meetDoubleStar |-> FALSE]

\* lexer.Match, its result: whether the current token is of type tok.
Matches(l, tok) == l.curr.type = tok

\* A variant of Advanced that does not record a `**`.
Advanced_ForgetsDoubleStar(l, tok, next) ==
    [input |-> l.input,
     pos |-> next.pos,
     curr |-> next.tok,
     prev |-> l.curr,
     meetDoubleStar |-> l.meetDoubleStar]

\* The lexer after a Match(tok) that returned true, next being the token
\* after the current one.
Advanced(l, tok, next) ==
    [input |-> l.input,
     pos |-> next.pos,
     curr |-> next.tok,
     prev |-> l.curr,
     meetDoubleStar |-> l.meetDoubleStar \/ tok = "TokenDoubleStar"]

\* lexer.Match, its effect: the lexer afterwards (unchanged on a mismatch).
Matched(l, tok) ==
    IF ~Matches(l, tok) THEN l ELSE Advanced(l, tok, nextToken(l.input, l.pos))

MeetDoubleStar(l) == l.meetDoubleStar

\* The errors of the parser.  The four sentinels are told apart by errors.Is;
\* an error made by fmt.Errorf without %w is none of them.
ErrUnexpectedEndOfInput == "ErrUnexpectedEndOfInput"

ErrUnexpectedDoubleStar == "ErrUnexpectedDoubleStar"

ErrSubVariable == "ErrSubVariable"

ErrLeadingSlash == "expected leading '/'"

ErrNotAVariable == "unexpected token"

ErrVariableName == "expected variable name after '{'"

ErrAfterVariableName == "expected '=' or '/' after variable name"

\* What a parse function returns: the lexer afterwards, the value (nil on an
\* error) and the error ("" for nil).
Parsed(l, value) == [lex |-> l, isNil |-> FALSE, value |-> value, err |-> ""]

ParseFailed(l, err) == [lex |-> l, isNil |-> TRUE, value |-> <<>>, err |-> err]

RECURSIVE parseSegment(_, _)
RECURSIVE parseVariable(_)
RECURSIVE parseSubPattern(_, _)
RECURSIVE parseSegments(_, _)

\* A variant of parseVariablePattern that lets the sub-pattern be empty.
parseVariablePattern_AllowsEmpty(varName, pattern) ==
    IF pattern.err # "" THEN ParseFailed(pattern.lex, pattern.err)
    ELSE Parsed(pattern.lex, VariablePattern(varName, pattern.value))

\* parseVariable, lines 134-144: the loop over the sub-pattern has ended.
parseVariablePattern(varName, pattern) ==
    IF pattern.err # "" THEN ParseFailed(pattern.lex, pattern.err)
    ELSE IF Len(pattern.value) = 0 THEN ParseFailed(pattern.lex, ErrUnexpectedEndOfInput)
    ELSE Parsed(pattern.lex, VariablePattern(varName, pattern.value))

\* parseVariable, lines 97-117: the name has been read and is l.prev.
parseVariableAfterName(l) ==
    IF Matches(l, "TokenRightBrace")
    THEN Parsed(Matched(l, "TokenRightBrace"), Variable(l.prev.value))
    ELSE IF Matches(l, "TokenEOF") THEN ParseFailed(l, ErrUnexpectedEndOfInput)
    ELSE IF ~Matches(l, "TokenEq") THEN ParseFailed(l, ErrAfterVariableName)
    ELSE parseVariablePattern(l.prev.value, parseSubPattern(Matched(l, "TokenEq"), <<>>))

\* parseVariable, lines 94-97: the left brace has been read.
parseVariableName(l) ==
    IF ~Matches(l, "TokenLiteral") THEN ParseFailed(l, ErrVariableName)
    ELSE parseVariableAfterName(Matched(l, "TokenLiteral"))

parseVariable(l) ==
    IF ~Matches(l, "TokenLeftBrace") THEN ParseFailed(l, ErrNotAVariable)
    ELSE parseVariableName(Matched(l, "TokenLeftBrace"))

\* The body of the loop of parseVariable after the segment has been parsed.
parseSubPatternAppend(seg, segments) ==
    IF seg.err # "" THEN ParseFailed(seg.lex, seg.err)
    ELSE parseSubPattern(seg.lex, Append(segments, seg.value))

\* The loop of parseVariable after `=`, with the sub-pattern read so far.
parseSubPattern(l, segments) ==
    IF Matches(l, "TokenRightBrace") THEN Parsed(Matched(l, "TokenRightBrace"), segments)
    ELSE IF Matches(l, "TokenEOF") THEN ParseFailed(l, ErrUnexpectedEndOfInput)
    ELSE IF Matches(l, "TokenSlash") THEN parseSubPattern(Matched(l, "TokenSlash"), segments)
    ELSE parseSubPatternAppend(parseSegment(l, FALSE), segments)

\* A variant of parseSubVariable that lets a variable stand in a sub-pattern.
parseSubVariable_Allowed(var) == var

\* parseSegment, lines 82-87: a variable where none is allowed.
parseSubVariable(var) ==
    IF var.err = "" THEN ParseFailed(var.lex, ErrSubVariable)
    ELSE ParseFailed(var.lex, var.err)

\* parseSegment, lines 69-77: the literal read is l.prev.
parseLiteral(l) == Parsed(l, Literal(l.prev.value))

parseSegment(l, expectVar) ==
    IF ~MeetDoubleStar(l) /\ Matches(l, "TokenDoubleStar")
    THEN Parsed(Matched(l, "TokenDoubleStar"), DoubleStar)
    ELSE IF MeetDoubleStar(l) THEN ParseFailed(l, ErrUnexpectedDoubleStar)
    ELSE IF Matches(l, "TokenStar") THEN Parsed(Matched(l, "TokenStar"), Star)
    ELSE IF Matches(l, "TokenLiteral") THEN parseLiteral(Matched(l, "TokenLiteral"))
    ELSE IF expectVar THEN parseVariable(l)
    ELSE parseSubVariable(parseVariable(l))

\* The body of the loop of parseSegments after the segment has been parsed.
parseSegmentsAppend(seg, segments) ==
    IF seg.err # "" THEN ParseFailed(seg.lex, seg.err)
    ELSE parseSegments(seg.lex, Append(segments, seg.value))

\* The loop of parseSegments, with the segments read so far.
parseSegments(l, segments) ==
    IF Matches(l, "TokenEOF") THEN Parsed(Matched(l, "TokenEOF"), PathTemplate(segments))
    ELSE IF Matches(l, "TokenSlash") THEN parseSegments(Matched(l, "TokenSlash"), segments)
    ELSE parseSegmentsAppend(parseSegment(l, TRUE), segments)

\* What ParseTemplate returns for what parseSegments returned.
TreeOrError(parsed) ==
    IF parsed.err # "" THEN [tree |-> NilTemplate, err |-> parsed.err]
    ELSE [tree |-> parsed.value, err |-> ""]

\* A variant of ParseTemplateFrom that does not ask for the leading slash.
ParseTemplateFrom_AnyStart(l) ==
    TreeOrError(parseSegments(Matched(l, "TokenSlash"), <<>>))

\* ParseTemplate: the tree (NilTemplate on an error) and the error.
ParseTemplateFrom(l) ==
    IF ~Matches(l, "TokenSlash") THEN [tree |-> NilTemplate, err |-> ErrLeadingSlash]
    ELSE TreeOrError(parseSegments(Matched(l, "TokenSlash"), <<>>))

ParseTemplate(s) == ParseTemplateFrom(NewLexer(s))

CallParseTemplate ==
    /\ LET r == ParseTemplate(mIn.input)
       IN  mOut' = [fn |-> "ParseTemplate", tree |-> r.tree, err |-> r.err]
    /\ UNCHANGED <<walkerVars, ret, hist, mIn, frame>>

InitParse ==
    /\ Build(<<>>, MatchOptions(FALSE, FALSE))
    /\ ret = NoReturn
    /\ hist = <<>>
    /\ \E s \in TemplateStrings : mIn = [input |-> s]
    /\ mOut = NoResult
    /\ frame = NoFrame

NextParse == CallParseTemplate

SpecParse == InitParse /\ [][NextParse]_allVars

\* ------------------------------------------------------------------------
\* The path string utilities, called on their own: one call of Split, Join
\* or Clean on a path string and a list of segments.

\* The segments handed to Join: any short strings, slashes and empty ones
\* included.
JoinSegments == StringsOver(PathAlphabet, 2)

JoinLists == SeqsUpTo(JoinSegments, 2)

CallSplit ==
    /\ mOut' = [fn |-> "Split", segments |-> Split(mIn.path)]
    /\ UNCHANGED <<walkerVars, ret, hist, mIn, frame>>

CallJoin ==
    /\ mOut' = [fn |-> "Join", path |-> Join(mIn.segments)]
    /\ UNCHANGED <<walkerVars, ret, hist, mIn, frame>>

CallClean ==
    /\ mOut' = [fn |-> "Clean", path |-> Clean(mIn.path)]
    /\ UNCHANGED <<walkerVars, ret, hist, mIn, frame>>

InitUtils ==
    /\ Build(<<>>, MatchOptions(FALSE, FALSE))
    /\ ret = NoReturn
    /\ hist = <<>>
    /\ \E p \in PathStrings, segs \in JoinLists : mIn = [path |-> p, segments |-> segs]
    /\ mOut = NoResult
    /\ frame = NoFrame

NextUtils == CallSplit \/ CallJoin \/ CallClean

SpecUtils == InitUtils /\ [][NextUtils]_allVars

\* ------------------------------------------------------------------------
\* Claims about the walker (checked under Spec).
\* ------------------------------------------------------------------------

\* C1: a Step whose template does not match the unconsumed suffix (or for
\* which the matcher reports an error) returns matched = false with nil
\* stepVars and leaves Depth(), Remaining(), Variables() and IsComplete() as
\* they were before the call.
C1_FailedStepChangesNothing ==
    [][(ret'.op = "Step" /\ ~ret'.matched) =>
          /\ ret'.stepVars = NilMap
          /\ Depth' = Depth
          /\ Remaining' = Remaining
          /\ Variables' = Variables
          /\ IsComplete' = IsComplete]_allVars

\* C1 witness: a template was rejected without error by a walker that had
\* already consumed part of its path and captured something.
C1_Witness ==
    /\ ret.op = "Step" /\ ~ret.matched /\ ret.err = ""
    /\ currDepth > 0 /\ pathSegIdx > 0 /\ pathSegIdx < Len(pathSegments)
    /\ Variables # EmptyMap

\* C2: StepBack undoes Step exactly.  hist holds, for every step still
\* applied, what Remaining(), Variables() and Depth() were before it; every
\* StepBack called while a step is applied returns true and brings the three
\* back to what they were before the latest applied step, whatever stale
\* checkpoints earlier StepBacks left behind.  By induction n StepBacks undo
\* n Steps.
C2_StepBackUndoesStep ==
    [][(ret'.op = "StepBack" /\ hist # <<>>) =>
          /\ ret'.ok
          /\ Remaining' = hist[Len(hist)].remaining
          /\ Variables' = hist[Len(hist)].variables
          /\ Depth' = hist[Len(hist)].depth
          /\ hist' = SubSeq(hist, 1, Len(hist) - 1)]_allVars

\* C2 witness: a StepBack has just succeeded at depth 1 while the checkpoint
\* stack still holds a stale entry above the current depth that differs from
\* the position restored.
C2_Witness ==
    /\ ret.op = "StepBack" /\ ret.ok
    /\ currDepth = 1
    /\ Len(segIdsCheckpoints) > currDepth + 1
    /\ segIdsCheckpoints[currDepth + 2] # pathSegIdx
    /\ pathSegIdx > 0

\* Every segment of the list preceded by a slash: the slash-delimited form of
\* a list of segments, the empty string for the empty list.
RECURSIVE SlashDelimited(_)
SlashDelimited(list) ==
    IF list = <<>> THEN <<>>
    ELSE <<Slash>> \o Head(list) \o SlashDelimited(Tail(list))

\* C3: a successful Step matched some template against the unconsumed suffix
\* only, advanced the consumed index by exactly the count the matcher
\* reported, raised Depth() by exactly 1, pushed exactly one capture layer and
\* returned only this step's captures; Remaining() is then the slash-delimited
\* form of exactly the segments after the new index.
C3_SuccessfulStep ==
    [][(ret'.op = "Step" /\ ret'.matched) =>
          /\ \E t \in StepTemplates :
                LET m == Match(t, SliceFrom(pathSegments, pathSegIdx), matchOptions)
                IN  /\ m.matched /\ m.err = ""
                    /\ m.pathIdx = ret'.pathIdx
                    /\ m.vars.kv = ret'.stepVars.kv
          /\ pathSegIdx' = pathSegIdx + ret'.pathIdx
          /\ pathSegIdx' <= Len(pathSegments)
          /\ Depth' = Depth + 1
          /\ Len(vars') = Len(vars) + 1
          /\ SubSeq(vars', 1, Len(vars)) = vars
          /\ vars'[Len(vars')].kv = ret'.stepVars.kv
          /\ ~ret'.stepVars.isNil
          /\ Remaining' = SlashDelimited(SliceFrom(pathSegments, pathSegIdx'))]_allVars

\* C3 witness: a second step succeeded from the middle of the path, consumed
\* one segment and captured a variable an earlier step had captured with
\* another value, so that what it returned differs from Variables().
C3_Witness ==
    /\ ret.op = "Step" /\ ret.matched
    /\ currDepth = 2 /\ ret.pathIdx = 1
    /\ pathSegIdx > 1
    /\ \E k \in DOMAIN ret.stepVars.kv :
          /\ k \in DOMAIN vars[1].kv
          /\ ret.stepVars.kv[k] # vars[1].kv[k]
          /\ ret.stepVars # Variables

\* The state WalkerBuilder.Build gives over the walker's own path and options.
FreshlyBuilt ==
    /\ currDepth = 0
    /\ pathSegIdx = 0
    /\ segIdsCheckpoints = <<0>>
    /\ vars = <<>>
    /\ hist = <<>>
    /\ \E p \in PathStrings : Build(p, matchOptions)

\* C4: after Reset the walker is in the state of a freshly built walker over
\* the same path and options (so every later call sequence goes as on a fresh
\* walker): Depth() is 0, Variables() is empty, Remaining() is the whole path,
\* and a StepBack right after it returns false.
C4_ResetIsFresh ==
    /\ [](ret.op = "Reset" =>
             /\ FreshlyBuilt
             /\ Depth = 0
             /\ Variables = EmptyMap
             /\ Remaining = SlashDelimited(pathSegments))
    /\ [][(ret.op = "Reset" /\ ret'.op = "StepBack") => ~ret'.ok /\ FreshlyBuilt']_allVars

\* C4 witness: Reset has just been called on a walker over two segments or
\* more.
C4_Witness ==
    /\ ret.op = "Reset"
    /\ Len(pathSegments) >= 2

\* C5: StepBack at depth 0 returns false and leaves Depth(), Remaining() and
\* Variables() unchanged; Depth() is never negative.
C5_StepBackAtDepthZero ==
    /\ [](Depth >= 0)
    /\ [][(ret'.op = "StepBack" /\ Depth = 0) =>
             /\ ~ret'.ok
             /\ Depth' = 0
             /\ Remaining' = Remaining
             /\ Variables' = Variables]_allVars

\* C5 witness: StepBack has just returned false on a walker at depth 0 whose
\* steps had all been undone before (stale checkpoints remain).
C5_Witness ==
    /\ ret.op = "StepBack" /\ ~ret.ok
    /\ currDepth = 0
    /\ Len(segIdsCheckpoints) > 1
    /\ Len(pathSegments) > 0

\* The captures of the steps still applied, in step order.
AppliedCaptures == [i \in 1..Len(hist) |-> hist[i].stepVars]

AllSlashes(p) == \A i \in 1..Len(p) : p[i] = Slash

\* C7: IsComplete() is true exactly when Remaining() is the empty string, and
\* exactly when the consumed index equals the number of path segments; an
\* empty or all-slash path string splits to no segments, and a walker built
\* over no segments is complete from construction.
C7_CompleteIffNothingRemains ==
    /\ IsComplete <=> (Remaining = <<>>)
    /\ (Remaining = <<>>) <=> (pathSegIdx = Len(pathSegments))
    /\ \A p \in PathStrings : AllSlashes(p) => Split(p) = <<>>
    /\ (ret.op = "New" /\ pathSegments = <<>>) => IsComplete

\* C7 witness: a walker over a path with segments became complete by steps.
C7_Witness ==
    /\ IsComplete
    /\ Remaining = <<>>
    /\ Len(pathSegments) > 1
    /\ currDepth > 0

\* ------------------------------------------------------------------------
\* Claims about the one-shot matcher (checked under SpecMatch).
\* ------------------------------------------------------------------------

IsPatternVariable(seg) == seg.kind = "Variable" /\ ~seg.nilSegments

\* The template ends in `**`: as its last top-level segment, or as the last
\* element of the sub-pattern of its last segment.
EndsInDoubleStar(segs) ==
    /\ segs # <<>>
    /\ LET last == segs[Len(segs)]
       IN  \/ last.kind = "DoubleStar"
           \/ /\ IsPatternVariable(last)
              /\ last.segments # <<>>
              /\ last.segments[Len(last.segments)].kind = "DoubleStar"

\* The part of such a template before its final `**`.
BeforeDoubleStar(segs) ==
    LET n == Len(segs)
        last == segs[n]
    IN  IF last.kind = "DoubleStar" \/ Len(last.segments) = 1
        THEN SubSeq(segs, 1, n - 1)
        ELSE SubSeq(segs, 1, n - 1)
             \o <<VariablePattern(last.name, SubSeq(last.segments, 1, Len(last.segments) - 1))>>

HasDoubleStar(segs) ==
    \E i \in 1..Len(segs) :
        \/ segs[i].kind = "DoubleStar"
        \/ \E j \in 1..Len(segs[i].segments) : segs[i].segments[j].kind = "DoubleStar"

\* `**` occurs in the template at most once, and then as its very end: the
\* trees ParseTemplate produces.
DoubleStarOnlyAtEnd(segs) ==
    IF EndsInDoubleStar(segs) THEN ~HasDoubleStar(BeforeDoubleStar(segs))
    ELSE ~HasDoubleStar(segs)

\* C8 (as the spec states it): a template ending in `**` matches every path
\* whose leading segments match the part of the template before the `**`
\* exactly, whatever number of segments follows them, none included.
C8_DoubleStarTailMatchesZeroOrMore ==
    LET segs == mIn.template.segments
        path == Split(mIn.path)
    IN  (/\ mOut.fn # "none"
         /\ ~mIn.template.isNil
         /\ EndsInDoubleStar(segs)
         /\ DoubleStarOnlyAtEnd(segs))
        => \A k \in 0..Len(path) :
              LET m == Match(PathTemplate(BeforeDoubleStar(segs)), SubSeq(path, 1, k), mIn.opts)
              IN  (m.matched /\ m.pathIdx = k) => mOut.matched

\* C8 witness: `/a/**` was matched against `/a` and did not match.
C8_Witness ==
    /\ mOut.fn = "pathmatch.Match"
    /\ mIn.template = PathTemplate(<<Literal(LitA), DoubleStar>>)
    /\ mIn.path = <<"/", "a">>
    /\ ~mOut.matched
    /\ mOut.err = ""

\* C9 (as the spec states it): on a match, the value captured by a variable
\* with a sub-pattern does not begin with a slash.
C9_PatternCaptureHasNoLeadingSlash ==
    LET segs == mIn.template.segments
    IN  (mOut.fn # "none" /\ mOut.matched)
        => \A i \in 1..Len(segs) :
              IsPatternVariable(segs[i])
              => /\ segs[i].name \in DOMAIN mOut.vars.kv
                 /\ LET value == mOut.vars.kv[segs[i].name]
                    IN  value = <<>> \/ Head(value) # Slash

\* C9 witness: `/{y=**}` was matched against `a/aa` and captured y = "/a/aa".
C9_Witness ==
    /\ mOut.fn = "pathmatch.Match"
    /\ mIn.template = PathTemplate(<<VariablePattern(NameY, <<SubDoubleStar>>)>>)
    /\ mIn.path = <<"a", "/", "a", "a">>
    /\ mOut.matched
    /\ mOut.vars.kv[NameY] = <<"/", "a", "/", "a", "a">>

\* The number of path segments a segment without `**` takes.
Width(seg) == IF IsPatternVariable(seg) THEN Len(seg.segments) ELSE 1

RECURSIVE TotalWidth(_)
TotalWidth(segs) ==
    IF segs = <<>> THEN 0 ELSE Width(Head(segs)) + TotalWidth(Tail(segs))

NameZ == <<"z">>

\* The variable segment under another name.
Renamed(seg, n) == [seg EXCEPT !.name = n]

\* C11 (as the spec states it): when a template of two variables of the same
\* name matches, the value reported for the name is the capture of the first
\* variable under KeepFirstVariable and the capture of the second otherwise,
\* whatever the kind of the two variables.  The two captures are read off a
\* match of the same template with the first variable renamed.
C11_KeepFirstForEveryKind ==
    LET segs == mIn.template.segments
    IN  (/\ mOut.fn = "Match"
         /\ Len(segs) = 2
         /\ segs[1].kind = "Variable" /\ segs[2].kind = "Variable"
         /\ segs[1].name = segs[2].name
         /\ DoubleStarOnlyAtEnd(segs))
        => LET apart == Match(PathTemplate(<<Renamed(segs[1], NameZ), segs[2]>>),
                              Split(mIn.path), mIn.opts)
               n == segs[1].name
           IN  apart.matched
               => /\ mOut.matched
                  /\ n \in DOMAIN mOut.vars.kv
                  /\ mOut.vars.kv[n] = IF mIn.opts.KeepFirstVariable
                                        THEN apart.vars.kv[NameZ]
                                        ELSE apart.vars.kv[n]

\* C11 witness: `/{x}/{x}` matched `a/aa` under KeepFirstVariable and reported
\* x = "aa", the second capture.
C11_Witness ==
    /\ mOut.fn = "Match"
    /\ mIn.template = PathTemplate(<<Variable(NameX), Variable(NameX)>>)
    /\ mIn.path = <<"a", "/", "a", "a">>
    /\ mIn.opts.KeepFirstVariable
    /\ mOut.matched
    /\ mOut.vars.kv[NameX] = <<"a", "a">>

\* ------------------------------------------------------------------------
\* Claims about the parser (checked under SpecParse).
\* ------------------------------------------------------------------------

\* The tokens of a string from pos on, each with the position after it.
RECURSIVE TokensFrom(_, _)
TokensFrom(input, pos) ==
    IF pos >= Len(input) THEN <<>>
    ELSE LET t == nextToken(input, pos)
         IN  <<[type |-> t.tok.type, value |-> t.tok.value, end |-> t.pos]>>
             \o TokensFrom(input, t.pos)

Tokens(input) == TokensFrom(input, 0)

\* The tokens of the sequence that are not slashes.
NoSlashes(toks) == SelectSeq(toks, LAMBDA t : t.type # "TokenSlash")

IsDoubleStarToken(t) == t.type = "TokenDoubleStar"

\* The index of the first `**` among the tokens, 0 if there is none.
FirstDoubleStar(toks) ==
    IF \E i \in 1..Len(toks) : IsDoubleStarToken(toks[i])
    THEN CHOOSE i \in 1..Len(toks) :
            /\ IsDoubleStarToken(toks[i])
            /\ \A j \in 1..(i - 1) : ~IsDoubleStarToken(toks[j])
    ELSE 0

\* C12: take a template string with a `**` such that the string up to and
\* including its first `**` is a template (top-level `**`), or becomes one
\* when a closing brace is added (`**` in a sub-pattern).  If nothing but
\* slashes follows the `**`, with the closing brace in the second case, the
\* string is accepted (short of the brace, the input has ended inside the
\* variable).  If anything else follows, ParseTemplate fails with
\* ErrUnexpectedDoubleStar.
C12_NothingAfterDoubleStar ==
    LET s == mIn.input
        toks == Tokens(s)
        i == FirstDoubleStar(toks)
        upTo == SubSeq(s, 1, toks[i].end)
        after == NoSlashes(SubSeq(toks, i + 1, Len(toks)))
        topLevel == ParseTemplate(upTo).err = ""
        inVariable == ParseTemplate(upTo \o <<"}">>).err = ""
    IN  (mOut.fn = "ParseTemplate" /\ i > 0)
        => /\ topLevel
              => IF after = <<>>
                 THEN mOut.err = "" /\ ~mOut.tree.isNil
                 ELSE mOut.err = ErrUnexpectedDoubleStar /\ mOut.tree.isNil
           /\ inVariable
              => IF after = <<>>
                 THEN mOut.err = ErrUnexpectedEndOfInput
                 ELSE IF Len(after) = 1 /\ after[1].type = "TokenRightBrace"
                 THEN mOut.err = "" /\ ~mOut.tree.isNil
                 ELSE mOut.err = ErrUnexpectedDoubleStar /\ mOut.tree.isNil

\* C12 witness: `/{a=**/a}`, a segment after the `**` of a sub-pattern, was
\* rejected with ErrUnexpectedDoubleStar.
C12_Witness ==
    /\ mOut.fn = "ParseTemplate"
    /\ mIn.input = <<"/", "{", "a", "=", "*", "*", "/", "a", "}">>
    /\ mOut.err = ErrUnexpectedDoubleStar

\* A left brace among the tokens while an earlier left brace is not closed.
BraceInsideBrace(toks) ==
    \E i, j \in 1..Len(toks) :
        /\ i < j
        /\ toks[i].type = "TokenLeftBrace"
        /\ toks[j].type = "TokenLeftBrace"
        /\ \A k \in (i + 1)..(j - 1) : toks[k].type # "TokenRightBrace"

\* The string is one variable, `{name}` or `{name=pattern}`.
IsVariableString(v) ==
    /\ Len(v) >= 3
    /\ v[1] = "{"
    /\ v[Len(v)] = "}"
    /\ LET r == ParseTemplate(<<"/">> \o v)
       IN  /\ r.err = ""
           /\ Len(r.tree.segments) = 1
           /\ r.tree.segments[1].kind = "Variable"

\* A segment of a sub-pattern can follow the string: with `*}` after it, it
\* is a template.
InsideSubPattern(pre) == ParseTemplate(pre \o <<"*", "}">>).err = ""

\* C13: a template string with a left brace inside an open brace is never
\* accepted; and when a well-formed variable stands where a segment of a
\* sub-pattern can stand (so no `**` comes before it), the error is
\* ErrSubVariable, whatever follows the variable.
C13_NoNestedVariable ==
    LET s == mIn.input
    IN  mOut.fn = "ParseTemplate"
        => /\ BraceInsideBrace(Tokens(s)) => (mOut.err # "" /\ mOut.tree.isNil)
           /\ \A i \in 1..Len(s) : \A j \in (i + 1)..Len(s) :
                 (/\ InsideSubPattern(SubSeq(s, 1, i))
                  /\ IsVariableString(SubSeq(s, i + 1, j)))
                 => mOut.err = ErrSubVariable

\* C13 witness: `/{a={a}}` was rejected with ErrSubVariable.
C13_Witness ==
    /\ mOut.fn = "ParseTemplate"
    /\ mIn.input = <<"/", "{", "a", "=", "{", "a", "}", "}">>
    /\ mOut.err = ErrSubVariable
    /\ mOut.tree.isNil

\* The last left brace among the tokens has no right brace after it.
BraceOpenAtEnd(toks) ==
    \E i \in 1..Len(toks) :
        /\ toks[i].type = "TokenLeftBrace"
        /\ \A k \in (i + 1)..Len(toks) : toks[k].type # "TokenRightBrace"

\* What can complete a string that ends inside a variable: the closing
\* brace, a name or a segment and the brace, a sub-pattern and the brace.
Completions == {<<"}">>, <<"a", "}">>, <<"=", "a", "}">>}

\* The string ends inside a variable and is sound up to there: some
\* completion makes it a template.
EndsInsideVariable(s) ==
    /\ BraceOpenAtEnd(Tokens(s))
    /\ \E c \in Completions : ParseTemplate(s \o c).err = ""

\* The string has a variable with an empty sub-pattern, `{name=}` (slashes
\* apart), and is sound up to there: with `}` in place of what follows the
\* name it is a template.
HasEmptySubPattern(s) ==
    LET toks == Tokens(s)
    IN  \E i \in 1..Len(toks) : \E j \in (i + 1)..Len(toks) :
            /\ toks[i].type = "TokenEq"
            /\ i >= 3
            /\ toks[i - 1].type = "TokenLiteral"
            /\ toks[i - 2].type = "TokenLeftBrace"
            /\ toks[j].type = "TokenRightBrace"
            /\ \A k \in (i + 1)..(j - 1) : toks[k].type = "TokenSlash"
            /\ ParseTemplate(SubSeq(s, 1, toks[i - 1].end) \o <<"}">>).err = ""

\* C14 (as the spec states it): a template string that ends inside a
\* variable (after `{`, after the name, or in the sub-pattern), or that has
\* a variable with an empty sub-pattern, is rejected with
\* ErrUnexpectedEndOfInput and no tree.
C14_EndOfInputInsideVariable ==
    (/\ mOut.fn = "ParseTemplate"
     /\ EndsInsideVariable(mIn.input) \/ HasEmptySubPattern(mIn.input))
    => (mOut.err = ErrUnexpectedEndOfInput /\ mOut.tree.isNil)

\* C14 witness: `/{`, ending right after the left brace, was rejected with
\* the error of a missing variable name, which is not ErrUnexpectedEndOfInput.
C14_Witness ==
    /\ mOut.fn = "ParseTemplate"
    /\ mIn.input = <<"/", "{">>
    /\ mOut.err = ErrVariableName

\* C15: ParseTemplate fails, with an error and no tree, on every string that
\* does not begin with a slash, the empty string included; on every string
\* it returns a tree exactly when it returns no error.
C15_LeadingSlashRequired ==
    mOut.fn = "ParseTemplate"
    => /\ (mIn.input = <<>> \/ Head(mIn.input) # Slash)
          => (mOut.err # "" /\ mOut.tree.isNil)
       /\ (mOut.err = "") <=> ~mOut.tree.isNil
       /\ ParseTemplate(<<>>).err # "" /\ ParseTemplate(<<>>).tree.isNil

\* C15 witness: `a/a`, a template but for the leading slash, was rejected.
C15_Witness ==
    /\ mOut.fn = "ParseTemplate"
    /\ mIn.input = <<"a", "/", "a">>
    /\ mOut.err = ErrLeadingSlash
    /\ mOut.tree.isNil
    /\ ParseTemplate(<<"/">> \o mIn.input).err = ""

\* The number of DoubleStar nodes of a sequence of sub-pattern elements.
RECURSIVE CountDoubleStarsIn(_)
CountDoubleStarsIn(pattern) ==
    IF pattern = <<>> THEN 0
    ELSE (IF Head(pattern).kind = "DoubleStar" THEN 1 ELSE 0) + CountDoubleStarsIn(Tail(pattern))

\* The number of DoubleStar nodes of a tree, sub-patterns included.
RECURSIVE CountDoubleStars(_)
CountDoubleStars(segs) ==
    IF segs = <<>> THEN 0
    ELSE (IF Head(segs).kind = "DoubleStar" THEN 1 ELSE 0)
         + CountDoubleStarsIn(Head(segs).segments)
         + CountDoubleStars(Tail(segs))

\* C16: a tree ParseTemplate returns has at most one DoubleStar, and that one
\* is its last top-level segment or the last element of the sub-pattern of
\* its last top-level segment; no sub-pattern holds a Variable; every
\* variable has a non-empty name; every variable with a sub-pattern has at
\* least one element in it.
C16_ParsedTreeWellFormed ==
    LET segs == mOut.tree.segments
    IN  (mOut.fn = "ParseTemplate" /\ mOut.err = "")
        => /\ CountDoubleStars(segs) <= 1
           /\ CountDoubleStars(segs) = 1 => EndsInDoubleStar(segs)
           /\ \A i \in 1..Len(segs) :
                 /\ segs[i].kind \in {"Literal", "Star", "DoubleStar", "Variable"}
                 /\ segs[i].kind = "Variable" => segs[i].name # <<>>
                 /\ segs[i].kind # "Variable" => segs[i].nilSegments
                 /\ IsPatternVariable(segs[i]) => Len(segs[i].segments) >= 1
                 /\ \A j \in 1..Len(segs[i].segments) :
                       segs[i].segments[j].kind \in {"Literal", "Star", "DoubleStar"}

\* C16 witness: `/{a=a/**}` was parsed to one variable whose sub-pattern is a
\* literal and a `**`.
C16_Witness ==
    /\ mOut.fn = "ParseTemplate"
    /\ mOut.err = ""
    /\ mIn.input = <<"/", "{", "a", "=", "a", "/", "*", "*", "}">>
    /\ Len(mOut.tree.segments) = 1
    /\ IsPatternVariable(mOut.tree.segments[1])
    /\ Len(mOut.tree.segments[1].segments) = 2
    /\ mOut.tree.segments[1].segments[2].kind = "DoubleStar"

\* The characters a literal may not hold according to the documentation.
LiteralForbidden == {"/", "*", "{", "}"}

\* The string is a slash followed by literals and slashes only.
OnlyLiterals(s) ==
    /\ s # <<>>
    /\ Head(s) = Slash
    /\ \A i \in 1..Len(s) : s[i] = Slash \/ s[i] \notin LiteralForbidden

\* The paths a parsed literal template is tried on.
LiteralPaths == StringsOver({"/", "a", "="}, MaxPathLen)

\* C18 (as the spec states it): a template string made of slashes and of
\* characters other than `/`, `*`, `{`, `}` is accepted, its tree is one
\* Literal for each non-empty unit between slashes, with the unit as its
\* value, and the tree matches exactly the paths with these segments.
C18_LiteralCharacters ==
    LET s == mIn.input
        units == Split(s)
    IN  (mOut.fn = "ParseTemplate" /\ OnlyLiterals(s))
        => /\ mOut.err = ""
           /\ mOut.tree.segments = [i \in 1..Len(units) |-> Literal(units[i])]
           /\ \A p \in LiteralPaths :
                 StrictMatch(mOut.tree, p, MatchOptions(FALSE, FALSE)).matched
                 <=> Split(p) = units

\* C18 witness: `/a=a`, one unit with an equals sign in it, was rejected.
C18_Witness ==
    /\ mOut.fn = "ParseTemplate"
    /\ mIn.input = <<"/", "a", "=", "a">>
    /\ mOut.err = ErrNotAVariable
    /\ mOut.tree.isNil

\* The non-empty units of a string between its slashes outside braces:
\* unit is the unit being read, open whether a brace is open.
RECURSIVE UnitsOutsideBraces(_, _, _)
UnitsOutsideBraces(s, unit, open) ==
    IF s = <<>> THEN (IF unit = <<>> THEN <<>> ELSE <<unit>>)
    ELSE IF Head(s) = Slash /\ ~open
         THEN (IF unit = <<>> THEN <<>> ELSE <<unit>>) \o UnitsOutsideBraces(Tail(s), <<>>, FALSE)
         ELSE UnitsOutsideBraces(Tail(s), Append(unit, Head(s)),
                                 IF Head(s) = "{" THEN TRUE
                                 ELSE IF Head(s) = "}" THEN FALSE ELSE open)

\* C19 (as the spec states it): the top-level segments of the tree of an
\* accepted template string are, one for one and in order, its non-empty
\* units between slashes outside braces: the i-th segment is the one segment
\* of the tree of the i-th unit alone.
C19_OneSegmentPerUnit ==
    LET s == mIn.input
        units == UnitsOutsideBraces(s, <<>>, FALSE)
        segs == mOut.tree.segments
    IN  (mOut.fn = "ParseTemplate" /\ mOut.err = "")
        => /\ Len(segs) = Len(units)
           /\ \A i \in 1..Len(units) :
                 ParseTemplate(<<Slash>> \o units[i]).tree.segments = <<segs[i]>>

\* C19 witness: `/a*`, one unit, was parsed to two segments, a literal and a
\* star.
C19_Witness ==
    /\ mOut.fn = "ParseTemplate"
    /\ mIn.input = <<"/", "a", "*">>
    /\ mOut.err = ""
    /\ mOut.tree.segments = <<Literal(LitA), Star>>

\* ------------------------------------------------------------------------
\* Claims about the path string utilities (checked under SpecUtils).

\* The list holds only non-empty segments without a slash.
SlashFree(segments) ==
    \A i \in 1..Len(segments) :
        /\ segments[i] # <<>>
        /\ \A j \in 1..Len(segments[i]) : segments[i][j] # Slash

\* C20 (as the spec states it): Clean(p) equals Join(Split(p)) for every path
\* string p, the empty string and the all-slash strings included; Split never
\* returns an empty segment or one with a slash in it; and Split(Join(s)) is
\* s for every list s of non-empty segments without a slash.
C20_JoinSplitIsClean ==
    /\ mOut.fn = "Clean" => mOut.path = Join(Split(mIn.path))
    /\ mOut.fn = "Split" => SlashFree(mOut.segments)
    /\ (mOut.fn = "Join" /\ SlashFree(mIn.segments)) => Split(mOut.path) = mIn.segments

\* C20 witness: Clean was called on the empty string and returned the empty
\* string, where Join(Split("")) is "/".
C20_Witness ==
    /\ mOut.fn = "Clean"
    /\ mIn.path = <<>>
    /\ mOut.path = <<>>
    /\ Join(Split(mIn.path)) = <<Slash>>

\* The parts of C20 without the empty string, which the code satisfies.
C20_ExceptEmptyString ==
    /\ (mOut.fn = "Clean" /\ mIn.path # <<>>) => mOut.path = Join(Split(mIn.path))
    /\ mOut.fn = "Split" => SlashFree(mOut.segments)
    /\ (mOut.fn = "Join" /\ SlashFree(mIn.segments)) => Split(mOut.path) = mIn.segments

\* ------------------------------------------------------------------------
\* Further claims about the walker (checked under Spec).
\* ------------------------------------------------------------------------

ErrNilTemplate == "template cannot be nil"

\* C17: Match on a nil template returns an error with matched = false, 0
\* consumed and nil captures; a Step with a nil template returns that error,
\* and every Step that returns an error returns matched = false and nil
\* stepVars and leaves Depth(), Remaining() and Variables() unchanged.
C17_NilTemplateIsAnError ==
    /\ [](LET m == Match(NilTemplate, Unconsumed, matchOptions)
          IN  m.err = ErrNilTemplate /\ ~m.matched /\ m.pathIdx = 0 /\ m.vars = NilMap)
    /\ [][Step(NilTemplate) => (ret'.op = "Step" /\ ret'.err = ErrNilTemplate)]_allVars
    /\ [][(ret'.op = "Step" /\ ret'.err # "") =>
             /\ ~ret'.matched
             /\ ret'.stepVars = NilMap
             /\ Depth' = Depth
             /\ Remaining' = Remaining
             /\ Variables' = Variables]_allVars

\* C17 witness: a Step with a nil template has just returned its error on a
\* walker that had consumed part of its path and captured something.
C17_Witness ==
    /\ ret.op = "Step"
    /\ ret.err = ErrNilTemplate
    /\ ~ret.matched
    /\ currDepth > 0
    /\ pathSegIdx > 0 /\ pathSegIdx < Len(pathSegments)
    /\ Variables # EmptyMap

C28_SuccessfulStepAdvances ==
    /\ [][(ret'.op = "Step" /\ ret'.matched) =>
             /\ ~IsComplete
             /\ pathSegIdx' > pathSegIdx
             /\ Len(Remaining') < Len(Remaining)]_allVars
    /\ [](Depth <= Len(pathSegments))

\* C28 witness: a Step succeeded on a walker that was complete already; the
\* walker is at depth 2 over a path of one segment.
C28_Witness ==
    /\ ret.op = "Step"
    /\ ret.matched
    /\ ret.pathIdx = 0
    /\ IsComplete
    /\ Len(pathSegments) = 1
    /\ Depth = 2

\* C29: in every state of the walker the consumed index lies between 0 and
\* the number of path segments and is the checkpoint entry at position
\* Depth(), so that Step slices the path within its range; no call changes
\* the list of path segments.
C29_ConsumedIndexInRange ==
    /\ [](/\ 0 <= pathSegIdx
          /\ pathSegIdx <= Len(pathSegments)
          /\ Depth + 1 <= Len(segIdsCheckpoints)
          /\ segIdsCheckpoints[Depth + 1] = pathSegIdx)
    /\ [][pathSegments' = pathSegments]_allVars

\* C29 witness: two steps of one segment each took the walker to the end of
\* a path of two segments; the checkpoints are 0, 1 and 2.
C29_Witness ==
    /\ ret.op = "Step"
    /\ ret.matched
    /\ Depth = 2
    /\ Len(segIdsCheckpoints) = 3
    /\ segIdsCheckpoints[2] = 1
    /\ pathSegIdx = Len(pathSegments)
    /\ pathSegIdx = 2
    /\ ret.pathIdx = 1

\* ------------------------------------------------------------------------
\* Further claims about the one-shot matcher (checked under SpecMatch).
\* ------------------------------------------------------------------------

\* {name} written as {name=*}; every other segment as it is.
WithStarPattern(seg) ==
    IF seg.kind = "Variable" /\ seg.nilSegments
    THEN VariablePattern(seg.name, <<SubStar>>)
    ELSE seg

HasBareVariable(segs) ==
    \E i \in 1..Len(segs) : segs[i].kind = "Variable" /\ segs[i].nilSegments

\* C21 (as the documentation states it): a template with bare variables and
\* the same template with each bare variable {name} written as {name=*} give,
\* on every path and under every option setting, the same verdict, the same
\* consumed count and the same captured values.
C21_StarPatternIsBareVariable ==
    LET segs == mIn.template.segments
    IN  (mOut.fn = "Match" /\ ~mIn.template.isNil /\ HasBareVariable(segs))
        => LET starred == Match(PathTemplate([i \in 1..Len(segs) |-> WithStarPattern(segs[i])]),
                                Split(mIn.path), mIn.opts)
           IN  /\ starred.matched = mOut.matched
               /\ starred.pathIdx = mOut.pathIdx
               /\ starred.err = mOut.err
               /\ starred.vars = mOut.vars

\* C21 witness: `/{x}` matched `a` and captured x = "a", where `/{x=*}`
\* captures x = "/a".
C21_Witness ==
    /\ mOut.fn = "Match"
    /\ mIn.template = PathTemplate(<<Variable(NameX)>>)
    /\ mIn.path = <<"a">>
    /\ mOut.matched
    /\ mOut.vars.kv[NameX] = <<"a">>
    /\ Match(PathTemplate(<<VariablePattern(NameX, <<SubStar>>)>>), <<<<"a">>>>,
             mIn.opts).vars.kv[NameX] = <<"/", "a">>


\* strings.ToLower on a string.
LowerString(s) == [i \in 1..Len(s) |-> ToLower(s[i])]

\* The segment with its literals in lower case, those of a sub-pattern too.
RECURSIVE LowerSegment(_)
LowerSegment(seg) ==
    IF seg.kind = "Literal" THEN [seg EXCEPT !.value = LowerString(seg.value)]
    ELSE IF seg.kind = "Variable"
         THEN [seg EXCEPT !.segments = [j \in 1..Len(seg.segments) |-> LowerSegment(seg.segments[j])]]
         ELSE seg

LowerTemplate(template) ==
    [template EXCEPT !.segments = [i \in 1..Len(template.segments) |->
                                      LowerSegment(template.segments[i])]]

LowerPath(segments) == [i \in 1..Len(segments) |-> LowerString(segments[i])]

\* C22 (as the spec states it): the case-insensitive option bears on the
\* comparison of literals only.  On a path in lower case, a match with the
\* option set gives the verdict, the consumed count and the captured values
\* that a match with the option unset gives for the template with its
\* literals in lower case: the captures are the path's own text.
C22_CaseInsensitiveComparesOnly ==
    LET path == Split(mIn.path)
    IN  (/\ mOut.fn = "Match"
         /\ mIn.opts.CaseInsensitive
         /\ path = LowerPath(path))
        => LET folded == Match(LowerTemplate(mIn.template), path,
                               MatchOptions(FALSE, mIn.opts.KeepFirstVariable))
           IN  /\ mOut.matched = folded.matched
               /\ mOut.pathIdx = folded.pathIdx
               /\ mOut.err = folded.err
               /\ mOut.vars = folded.vars

\* C22 witness: `/{x=A/**}` matched `a/aa` case-insensitively and captured
\* x = "/A/aa", the literal in the template's casing.
C22_Witness ==
    /\ mOut.fn = "Match"
    /\ mIn.template = PathTemplate(<<VariablePattern(NameX, <<SubLiteral(LitUpperA), SubDoubleStar>>)>>)
    /\ mIn.path = <<"a", "/", "a", "a">>
    /\ mIn.opts.CaseInsensitive
    /\ mOut.matched
    /\ mOut.vars.kv[NameX] = <<"/", "A", "/", "a", "a">>


\* C23: a call that reports no match returns a nil capture map, and Match
\* returns a consumed count of 0 with it, whether it failed on a literal, ran
\* out of path, left path over in strict mode or returned an error.
C23_NoPartialCaptures ==
    (mOut.fn # "none" /\ ~mOut.matched)
    => /\ mOut.vars = NilMap
       /\ mOut.fn = "Match" => mOut.pathIdx = 0

\* C23 witness: the strict match of `/{x}` on `a/a` failed with a nil map,
\* after Match had captured x = "a" from the first segment.
C23_Witness ==
    /\ mOut.fn = "StrictMatch"
    /\ mIn.template = PathTemplate(<<Variable(NameX)>>)
    /\ mIn.path = <<"a", "/", "a">>
    /\ ~mOut.matched
    /\ mOut.vars = NilMap
    /\ mOut.err = ""
    /\ LET m == Match(mIn.template, Split(mIn.path), mIn.opts)
       IN  m.matched /\ m.pathIdx = 1 /\ m.vars.kv[NameX] = <<"a">>


\* The first top-level segment that is, or holds, a `**`.
FirstDoubleStarSegment(segs) ==
    CHOOSE i \in 1..Len(segs) :
        /\ HasDoubleStar(<<segs[i]>>)
        /\ ~HasDoubleStar(SubSeq(segs, 1, i - 1))

\* The place of the first `**` in a segment's sub-pattern; 0 when the segment
\* is itself a `**`.
DoubleStarPlace(seg) ==
    IF seg.kind = "DoubleStar" THEN 0
    ELSE CHOOSE j \in 1..Len(seg.segments) :
             /\ seg.segments[j].kind = "DoubleStar"
             /\ \A k \in 1..(j - 1) : seg.segments[k].kind # "DoubleStar"

\* The first `**` of the tree is not the last element of its sequence, or
\* ends the sub-pattern of a variable that is not the last segment.
DoubleStarMisplaced(segs) ==
    /\ HasDoubleStar(segs)
    /\ LET i == FirstDoubleStarSegment(segs)
           j == DoubleStarPlace(segs[i])
       IN  \/ i < Len(segs)
           \/ (j > 0 /\ j < Len(segs[i].segments))

\* The walk of Match over the path gets to the first `**` of the tree: the
\* segments before it match and leave path over, and so do the elements
\* before it in its sub-pattern.
ReachesDoubleStar(segs, path, opts) ==
    LET i == FirstDoubleStarSegment(segs)
        j == DoubleStarPlace(segs[i])
        pre == Match(PathTemplate(SubSeq(segs, 1, i - 1)), path, opts)
    IN  /\ path # <<>>
        /\ pre.matched
        /\ pre.pathIdx < Len(path)
        /\ j > 1 => Match(PathTemplate(<<VariablePattern(segs[i].name,
                                                         SubSeq(segs[i].segments, 1, j - 1))>>),
                          SliceFrom(path, pre.pathIdx), opts).matched

\* C24 (as the spec states it): when the walk of Match gets to a `**` that
\* is misplaced in a hand-built tree, Match returns an error and no match.
C24_MisplacedDoubleStarIsAnError ==
    LET segs == mIn.template.segments
    IN  (/\ mOut.fn = "Match"
         /\ ~mIn.template.isNil
         /\ DoubleStarMisplaced(segs)
         /\ ReachesDoubleStar(segs, Split(mIn.path), mIn.opts))
        => (mOut.err # "" /\ ~mOut.matched)

\* C24 witness: the hand-built tree [{y=**}, a] matched the path `a` without
\* an error, although its `**` is not in the last segment.
C24_Witness ==
    /\ mOut.fn = "Match"
    /\ mIn.template = PathTemplate(<<VariablePattern(NameY, <<SubDoubleStar>>), Literal(LitA)>>)
    /\ mIn.path = <<"a">>
    /\ mOut.matched
    /\ mOut.err = ""
    /\ mOut.pathIdx = 1


\* C30: Match is a prefix match.  When it matches, the consumed count is at
\* most the number of path segments; it is that number when the template
\* holds a `**`, and otherwise the number of segments the template's nodes
\* take; and a template without `**` that matches the first k segments of
\* the path matches the path, consuming k and leaving the rest.
C30_MatchReportsWhatItConsumed ==
    LET segs == mIn.template.segments
        path == Split(mIn.path)
    IN  (mOut.fn = "Match" /\ ~mIn.template.isNil)
        => /\ mOut.matched =>
                /\ mOut.pathIdx <= Len(path)
                /\ HasDoubleStar(segs) => mOut.pathIdx = Len(path)
                /\ ~HasDoubleStar(segs) => mOut.pathIdx = TotalWidth(segs)
           /\ ~HasDoubleStar(segs) =>
                \A k \in 0..Len(path) :
                    LET m == Match(mIn.template, SubSeq(path, 1, k), mIn.opts)
                    IN  (m.matched /\ m.pathIdx = k)
                        => (mOut.matched /\ mOut.pathIdx = k /\ mOut.vars.kv = m.vars.kv)

\* C30 witness: `/a` matched the path `a/aa` consuming one segment of two.
C30_Witness ==
    /\ mOut.fn = "Match"
    /\ mIn.template = PathTemplate(<<Literal(LitA)>>)
    /\ mIn.path = <<"a", "/", "a", "a">>
    /\ mOut.matched
    /\ mOut.pathIdx = 1
    /\ mOut.err = ""

\* ------------------------------------------------------------------------
\* Claims about the walker and its builder (checked under SpecBuilder).
\* ------------------------------------------------------------------------

\* What Step(template) would return and do in the current state.
StepOutcome(template) == Match(template, Unconsumed, matchOptions)

\* C25 (as the spec states it): a call on the builder after Build changes
\* nothing of what the walker gives: Variables() and the outcome of a Step
\* with any template are the same after the call as before it.
C25_BuilderCallsLeaveWalkerAlone ==
    [][(WithCaseIncensitive \/ WithKeepFirstVariable)
       => /\ Variables' = Variables
          /\ \A template \in StepTemplates : StepOutcome(template)' = StepOutcome(template)]_allVars

\* C25 witness: WithKeepFirstVariable was called on the builder of a walker
\* that holds two captures of x, "a" and then "aa", and Variables() of the
\* walker now gives the first, where it gives the second with the option
\* unset.
C25_Witness ==
    /\ ret.op = "WithKeepFirstVariable"
    /\ matchOptions.KeepFirstVariable
    /\ Len(vars) = 2
    /\ vars[1] = MapSet(EmptyMap, NameX, <<"a">>)
    /\ vars[2] = MapSet(EmptyMap, NameX, <<"a", "a">>)
    /\ Variables.kv[NameX] = <<"a">>
    /\ MergeLayers(EmptyMap, vars, FALSE).kv[NameX] = <<"a", "a">>


\* ------------------------------------------------------------------------
\* Claims about the main loop of Match (checked under SpecLoopFair).
\* ------------------------------------------------------------------------

HasUnset(segs) == \E i \in 1..Len(segs) : segs[i].kind = "Unset"

\* The loop, run to its end, returns what Match returns: the two
\* descriptions of Match agree on the trees both are defined on.
LoopAgreesWithMatch ==
    (frame.pc = "done" /\ ~HasUnset(mIn.template.segments))
    => LET m == Match(mIn.template, Split(mIn.path), mIn.opts)
       IN  mOut = [fn |-> "Match", matched |-> m.matched, pathIdx |-> m.pathIdx,
                   vars |-> m.vars, err |-> m.err]

\* C26 (as the spec states it): every call of Match returns, whatever the
\* tree, a segment of no variant included.
C26_MatchTerminates == <>(frame.pc = "done")

\* C26 witness: the main loop is at a segment of no variant with path left;
\* the iteration changes neither cursor.
C26_Witness ==
    /\ frame.pc = "loop"
    /\ frame.templateIdx < Len(mIn.template.segments)
    /\ frame.pathIdx < Len(Split(mIn.path))
    /\ mIn.template.segments[frame.templateIdx + 1] = Unset
    /\ frame.templateIdx = 1
    /\ frame.pathIdx = 1

====
